---------------------------- MODULE Spec2Model ----------------------------
(***************************************************************************)
(* Model of the wasm-bin encoder (src/src/lib.rs, values.rs, types.rs,     *)
(* instructions.rs, modules.rs).                                           *)
(*                                                                         *)
(* Every `write` of the Grammar trait is translated to the sequence of     *)
(* writer calls it performs: a `put` is one w.write_all (or one LEB128     *)
(* write), `new` is `let mut buf = vec![]`, `len` is                       *)
(* `(buf.len() as u32).write(w)` and `copy` is `buf.as_slice().write(w)`.  *)
(* Writers are numbered by nesting level: level 0 is the caller's sink,    *)
(* level 1 the buffer of Section::write, level 2 the buffer of Code::write *)
(* when it runs inside a section.  The state machine executes these calls  *)
(* one at a time against a sink that may fail; every call in the source is *)
(* followed by `?` (or is the tail expression), so the first failing call  *)
(* ends the whole write.                                                   *)
(*                                                                         *)
(* A written byte is kept as an item [b, t]: b is the byte, t names the    *)
(* statement of the source that wrote it.  A run of 2^32 or so equal bytes *)
(* is kept as one item [b, t, n], n being the number of bytes it stands    *)
(* for.                                                                    *)
(***************************************************************************)
EXTENDS Integers, Sequences, FiniteSets, TLC

\* ------------------------------------------------------------------ bounds
MaxNodes == 2      \* instruction trees hold at most this many instructions
MaxCap == 4        \* a failing sink accepts at most this many bytes
BigLen == 128      \* length of the long custom-section contents
MaxCalls == 2      \* the caller writes at most this many values to one sink

\* --------------------------------------------------------------- utilities
RECURSIVE Flatten(_)
Flatten(ss) ==
  IF Len(ss) = 0 THEN <<>>
  ELSE IF Len(ss) = 1 THEN ss[1]
  ELSE LET h == Len(ss) \div 2
       IN Flatten(SubSeq(ss, 1, h)) \o Flatten(SubSeq(ss, h + 1, Len(ss)))

Item(b, t) == [b |-> b, t |-> t]
Items(bs, t) == [j \in 1..Len(bs) |-> Item(bs[j], t)]
Bytes(items) == [j \in 1..Len(items) |-> items[j].b]
Tags(items) == [j \in 1..Len(items) |-> items[j].t]
CountTag(items, t) == Cardinality({j \in 1..Len(items) : items[j].t = t})
Prefix(s, n) == SubSeq(s, 1, n)

\* the writer calls
Put(lvl, items) == [op |-> "put", lvl |-> lvl, src |-> 0, bs |-> items]
NewBuf(lvl) == [op |-> "new", lvl |-> lvl, src |-> 0, bs |-> <<>>]
LenOf(lvl, src) == [op |-> "len", lvl |-> lvl, src |-> src, bs |-> <<>>]
CopyOf(lvl, src) == [op |-> "copy", lvl |-> lvl, src |-> src, bs |-> <<>>]

\* `x as u32` of a usize or of an enum discriminant that is kept as an
\* integer of the checker: the value modulo 2^32.  Such a number is in
\* 0..2^31-1, where that is the value itself; a size that may be larger is
\* kept in limbs and converted by TruncU32 below.
AsU32(n) == n

\* -------------------------------------------------------------- values.rs
\* leb128::write::unsigned, as called by u64::write
RECURSIVE ULEB(_)
ULEB(n) ==
  IF n \div 128 = 0 THEN << n % 128 >>
  ELSE << (n % 128) + 128 >> \o ULEB(n \div 128)

\* leb128::write::signed, as called by i64::write
RECURSIVE SLEB(_)
SLEB(n) ==
  LET byte == n % 128
      rest == (n - byte) \div 128
      done == (rest = 0 /\ byte < 64) \/ (rest = -1 /\ byte >= 64)
  IN IF done THEN << byte >> ELSE << byte + 128 >> \o SLEB(rest)

\* An i64 in its full width is kept as three limbs, l2 * 2^56 + l1 * 2^28 + l0
\* with l0, l1 in 0..2^28-1 and l2 in -128..127 (two's complement: l2 holds
\* bits 56..63 and the sign).
Limb == 2 ^ 28
I64(l2, l1, l0) == [l2 |-> l2, l1 |-> l1, l0 |-> l0]
Wide(n) == I64((n \div Limb) \div Limb, (n \div Limb) % Limb, n % Limb)

\* the number of bits of x >= 0 up to its highest set bit
RECURSIVE BitLen(_)
BitLen(x) == IF x = 0 THEN 0 ELSE 1 + BitLen(x \div 2)

\* i64::leading_zeros
LeadingZeros(n) ==
  IF n.l2 < 0 THEN 0
  ELSE IF n.l2 > 0 THEN 8 - BitLen(n.l2)
  ELSE IF n.l1 > 0 THEN 36 - BitLen(n.l1)
  ELSE 64 - BitLen(n.l0)

\* n >> 7 of an i64 (arithmetic shift)
Shr7(n) ==
  I64(n.l2 \div 128,
      n.l1 \div 128 + (n.l2 % 128) * (Limb \div 128),
      n.l0 \div 128 + (n.l1 % 128) * (Limb \div 128))

\* leb128::write::signed on an i64 in limbs
RECURSIVE SLEBW(_)
SLEBW(n) ==
  LET byte == n.l0 % 128
      rest == Shr7(n)
      done == (rest = Wide(0) /\ byte < 64) \/ (rest = Wide(-1) /\ byte >= 64)
  IN IF done THEN << byte >> ELSE << byte + 128 >> \o SLEBW(rest)

\* leb128::write::unsigned on the 64 bits of an i64 in limbs
RECURSIVE ULEBW(_)
ULEBW(n) ==
  LET byte == n.l0 % 128
      rest == I64((n.l2 % 256) \div 128, Shr7(n).l1, Shr7(n).l0)
  IN IF rest = Wide(0) THEN << byte >> ELSE << byte + 128 >> \o ULEBW(rest)

\* Option<T>: the result of S33::new, and a value to write
None == [k |-> "None"]
Some(v) == [k |-> "Some", v |-> v]

\* S33::new with the test `<= 32`
S33NewOffByOne(n) == IF 64 - LeadingZeros(n) <= 32 THEN Some(n) ELSE None

\* S33::new: (64 - n.leading_zeros() <= 33).then_some(Self(n))
S33New(n) == IF 64 - LeadingZeros(n) <= 33 THEN Some(n) ELSE None

\* a + b of two 64-bit integers in limbs
AddW(a, b) ==
  LET s0 == a.l0 + b.l0
      s1 == a.l1 + b.l1 + s0 \div Limb
  IN I64(a.l2 + b.l2 + s1 \div Limb, s1 % Limb, s0 % Limb)

\* `x as u32` of a usize in limbs (a 64-bit target): the low 32 bits, which
\* are l0 and the low four bits of l1
TruncU32(n) == I64(0, n.l1 % 16, n.l0)

\* a run of n bytes b, n in limbs, as one item
Run(b, t, n) == [b |-> b, t |-> t, n |-> n]

\* Vec::len and <[T]>::len of a buffer: the number of bytes its items stand for
RECURSIVE SumRuns(_, _)
SumRuns(rs, acc) ==
  IF rs = <<>> THEN acc ELSE SumRuns(Tail(rs), AddW(acc, Head(rs).n))
Size(items) ==
  LET rs == SelectSeq(items, LAMBDA it : "n" \in DOMAIN it)
  IN SumRuns(rs, Wide(Len(items) - Len(rs)))

RECURSIVE LEBytes(_, _)
LEBytes(bits, n) ==
  IF n = 0 THEN <<>> ELSE << bits % 256 >> \o LEBytes(bits \div 256, n - 1)

\* the items a writer call appends to its writer, b being the buffers:
\* w.write_all(bytes), (buf.len() as u32).write(w), buf.as_slice().write(w)
OpItems(o, b) ==
  CASE o.op = "put" -> o.bs
    [] o.op = "len" -> Items(ULEBW(TruncU32(Size(b[o.src]))), "len")
    [] o.op = "copy" -> b[o.src]
    [] o.op = "new" -> <<>>

U8Write(b, t, lvl) == << Put(lvl, << Item(b, t) >>) >>
U64Write(n, t, lvl) == << Put(lvl, Items(ULEB(n), t)) >>
U32Write(n, t, lvl) == U64Write(n, t, lvl)
I64Write(n, t, lvl) == << Put(lvl, Items(SLEB(n), t)) >>
I32Write(n, t, lvl) == I64Write(n, t, lvl)
F32Write(bits, t, lvl) == << Put(lvl, Items(LEBytes(bits, 4), t)) >>
F64Write(bits, t, lvl) == << Put(lvl, Items(LEBytes(bits, 8), t)) >>

\* u64::write and i64::write on an integer in limbs
U64WriteW(n, t, lvl) == << Put(lvl, Items(ULEBW(n), t)) >>
I64WriteW(n, t, lvl) == << Put(lvl, Items(SLEBW(n), t)) >>

\* to_le_bytes of the 64 bits in limbs: byte 3 is the top four bits of l0 and
\* the low four bits of l1
LEBytesW(n) ==
  << n.l0 % 256, (n.l0 \div 256) % 256, (n.l0 \div 65536) % 256,
     n.l0 \div 16777216 + (n.l1 % 16) * 16,
     (n.l1 \div 16) % 256, (n.l1 \div 4096) % 256, (n.l1 \div 1048576) % 256,
     n.l2 % 256 >>
\* f32::write and f64::write on the bits of the float, in limbs
F32WriteW(bits, t, lvl) == << Put(lvl, Items(SubSeq(LEBytesW(bits), 1, 4), t)) >>
F64WriteW(bits, t, lvl) == << Put(lvl, Items(LEBytesW(bits), t)) >>

\* Unsigned::write: a U32 is zero-extended (`n as u64`), and so is a u32 that is
\* kept in limbs already
UnsignedWrite(v, lvl) == U64WriteW(v.w, "u64", lvl)

\* Signed::write and Uninterpreted::write: every variant narrower than 64 bits
\* is sign-extended (`n as i64`)
SignedWrite(v, lvl) ==
  LET n == IF v.variant = "S64" THEN v.w ELSE Wide(v.i)
  IN I64WriteW(n, "i64", lvl)
UninterpretedWrite(v, lvl) ==
  LET n == IF v.variant = "I64" THEN v.w ELSE Wide(v.i)
  IN I64WriteW(n, "i64", lvl)

\* Float::write
FloatWrite(v, lvl) ==
  IF v.variant = "F32" THEN F32WriteW(v.w, "f32", lvl) ELSE F64WriteW(v.w, "f64", lvl)

\* `0x00.write(w)`: write on an integer literal without a suffix, whose type
\* falls back to i32
LitWrite(n, t, lvl) == I32Write(n, t, lvl)

\* S33::write with the index written as a u64
S33WriteUnsigned(n, t, lvl) == << Put(lvl, Items(ULEBW(n), t)) >>

\* S33::write: self.0.write(w), the i64 being kept in limbs
S33Write(n, t, lvl) == << Put(lvl, Items(SLEBW(n), t)) >>

\* Name::write: w.write_all(self.0.as_bytes())
NameWrite(s, lvl) == << Put(lvl, Items(s, "name")) >>


\* ------------------------------------------------------ value constructors
U8(n) == [k |-> "u8", n |-> n]
U32(n) == [k |-> "u32", n |-> n]
\* the numbers in their full width: a signed integer of at most 32 bits is the
\* integer i, every other number (a u32, a u64, an i64, the bits of a float)
\* is kept in limbs, w
Number(k, x) == IF k = "i32" THEN [k |-> k, i |-> x] ELSE [k |-> k, w |-> x]
Unsigned(variant, w) == [k |-> "Unsigned", variant |-> variant, w |-> w]
Signed(variant, x) ==
  IF variant = "S64" THEN [k |-> "Signed", variant |-> variant, w |-> x]
  ELSE [k |-> "Signed", variant |-> variant, i |-> x]
Uninterpreted(variant, x) ==
  IF variant = "I64" THEN [k |-> "Uninterpreted", variant |-> variant, w |-> x]
  ELSE [k |-> "Uninterpreted", variant |-> variant, i |-> x]
Float(variant, w) == [k |-> "Float", variant |-> variant, w |-> w]
Idx(n) == [k |-> "idx", n |-> n]
Name(s) == [k |-> "Name", s |-> s]
Vector(s) == [k |-> "Vector", v |-> s]
\* Vector<u8> of n elements 0u8, n in limbs and too large to enumerate
LongVector(n) == [k |-> "LongVector", len |-> n]
BoxSlice(s) == [k |-> "Box", v |-> s]
Valtype(b) == [k |-> "Valtype", b |-> b]
BtEmpty == [k |-> "Empty"]
BtValueType(vt) == [k |-> "ValueType", vt |-> vt]
BtTypeIndex(n) == [k |-> "TypeIndex", ti |-> n]
Memarg(a, o) == [k |-> "Memarg", align |-> a, offset |-> o]
Expr(is) == [k |-> "Expr", is |-> is]
\* Expr of n instructions Nop, n in limbs and too large to enumerate
LongExpr(n) == [k |-> "LongExpr", len |-> n]
Section(N, p) == [k |-> "Section", N |-> N, p |-> p]
Custom(name, contents) == [k |-> "Custom", name |-> name, contents |-> contents]
Locals(n, t) == [k |-> "Locals", n |-> n, t |-> t]
Func(t, e) == [k |-> "Func", t |-> t, e |-> e]
Code(f) == [k |-> "Code", f |-> f]
Functype(ps, rs) == [k |-> "Functype", parameters |-> ps, results |-> rs]
Start(x) == [k |-> "Start", x |-> x]
Export(nm, d) == [k |-> "Export", nm |-> nm, d |-> d]
Exportdesc(tag, x) == [k |-> "Exportdesc", tag |-> tag, x |-> x]
Import(mod, nm, d) == [k |-> "Import", mod |-> mod, nm |-> nm, d |-> d]
Importdesc(tag, x) == [k |-> "Importdesc", tag |-> tag, x |-> x]
Limits(min, max) == [k |-> "Limits", min |-> min, max |-> max]
Tabletype(et, lim) == [k |-> "Tabletype", element_type |-> et, limits |-> lim]
Globaltype(ty, mut) == [k |-> "Globaltype", ty |-> ty, mutability |-> mut]
Global(gt, e) == [k |-> "Global", gt |-> gt, e |-> e]
Elem(n, fs) == [k |-> "Elem", n |-> n, fs |-> fs]
Data(n, fs) == [k |-> "Data", n |-> n, fs |-> fs]

\* instructions: k is the variant's name
Nop == [k |-> "Nop"]
Block(bt, is) == [k |-> "Block", bt |-> bt, in1 |-> is]
Loop(bt, is) == [k |-> "Loop", bt |-> bt, in1 |-> is]
If(bt, is) == [k |-> "If", bt |-> bt, in1 |-> is]
IfElse(bt, in1, in2) == [k |-> "IfElse", bt |-> bt, in1 |-> in1, in2 |-> in2]
LocalGet(x) == [k |-> "LocalGet", x |-> x]
I32Const(n) == [k |-> "I32Const", n |-> n]
Numeric(opcode) == [k |-> "Numeric", opcode |-> opcode]
TruncSat(opcode) == [k |-> "TruncSat", opcode |-> opcode]
MemoryCopy == [k |-> "MemoryCopy"]
MemoryInit(x) == [k |-> "MemoryInit", x |-> x]
VectorNoImmediate(opcode) == [k |-> "VectorNoImmediate", opcode |-> opcode]
VectorLaneidx(opcode, lane) == [k |-> "VectorLaneidx", opcode |-> opcode, lane |-> lane]
VectorMemarg(opcode, m) == [k |-> "VectorMemarg", opcode |-> opcode, m |-> m]

\* opcode tables (instructions.rs)
I32Add == 106
I64x2Eq == 214
IdxOpcode ==
  [Br |-> 12, BrIf |-> 13, Call |-> 16, RefFunc |-> 210, LocalGet |-> 32,
   LocalSet |-> 33, LocalTee |-> 34, GlobalGet |-> 35, GlobalSet |-> 36,
   TableGet |-> 37, TableSet |-> 38]
NoImmOpcode ==
  [Unreachable |-> 0, Nop |-> 1, Return |-> 15, RefIsNull |-> 209, Drop |-> 26]
MemargOpcode ==
  [I32Load |-> 40, I64Load |-> 41, F32Load |-> 42, F64Load |-> 43,
   I32Load8S |-> 44, I32Load8U |-> 45, I32Load16S |-> 46, I32Load16U |-> 47,
   I64Load8S |-> 48, I64Load8U |-> 49, I64Load16S |-> 50, I64Load16U |-> 51,
   I64Load32S |-> 52, I64Load32U |-> 53, I32Store |-> 54, I64Store |-> 55,
   F32Store |-> 56, F64Store |-> 57, I32Store8 |-> 58, I32Store16 |-> 59,
   I64Store8 |-> 60, I64Store16 |-> 61, I64Store32 |-> 62]
\* 0xFC instructions with one index immediate, and with two
FcIdxOpcode == [ElemDrop |-> 13, TableGrow |-> 15, TableSize |-> 16,
                TableFill |-> 17, DataDrop |-> 9]
FcIdx2Opcode == [TableInit |-> 12, TableCopy |-> 14]
NestOpcode == [Block |-> 2, Loop |-> 3, If |-> 4, IfElse |-> 4]

\* the discriminants of enum VectorMemarg, the type of the opcode of both
\* Instr::VectorMemarg and Instr::VectorLaneidx, and of enum VectorLaneidx
VectorMemargOpcodes == (0..11) \cup {92, 93}
VectorLaneidxOpcodes == 21..34

\* ------------------------------------------------ the Grammar trait's write
RECURSIVE Write(_, _), SliceWrite(_, _), InstrWrite(_, _), CodeWrite(_, _)

\* <&[T] as Grammar>::write, Box<[T]>::write, [T; N]::write
SliceWrite(s, lvl) == Flatten([j \in 1..Len(s) |-> Write(s[j], lvl)])

\* Vector::write
VectorWrite(v, lvl) == U32Write(AsU32(Len(v)), "cnt", lvl) \o SliceWrite(v, lvl)

\* Vector::write of LongVector(n): (self.0.len() as u32).write(w), then the
\* n writes of an element 0u8, taken as one call
LongVectorWrite(n, lvl) ==
  << Put(lvl, Items(ULEBW(TruncU32(n)), "cnt")), Put(lvl, << Run(0, "u8", n) >>) >>

\* Blocktype::write
BlocktypeWrite(bt, lvl) ==
  CASE bt.k = "Empty" -> U8Write(64, "bt", lvl)
    [] bt.k = "ValueType" -> U8Write(bt.vt.b, "bt", lvl)
    [] bt.k = "TypeIndex" -> S33Write(bt.ti, "bt", lvl)

\* Memarg::write
MemargWrite(m, lvl) == U32Write(m.align, "imm", lvl) \o U32Write(m.offset, "imm", lvl)

\* Expr::write without the final 0x0bu8.write(w)
ExprWriteNoEnd(is, lvl) == SliceWrite(is, lvl)

\* Expr::write
ExprWrite(is, lvl) == SliceWrite(is, lvl) \o U8Write(11, "end", lvl)

\* Expr::write of LongExpr(n): the n writes of Nop, taken as one call, then
\* the end marker
LongExprWrite(n, lvl) == << Put(lvl, << Run(1, "op", n) >>) >> \o U8Write(11, "end", lvl)

\* Instr::write, a nesting instruction written with Expr::write for its body
NestWriteExprBody(i, lvl) ==
  IF i.k = "IfElse"
  THEN U8Write(4, "op", lvl) \o BlocktypeWrite(i.bt, lvl)
         \o SliceWrite(i.in1, lvl) \o U8Write(5, "else", lvl)
         \o ExprWrite(i.in2, lvl) \o U8Write(11, "end", lvl)
  ELSE U8Write(NestOpcode[i.k], "op", lvl) \o BlocktypeWrite(i.bt, lvl)
         \o ExprWrite(i.in1, lvl) \o U8Write(11, "end", lvl)

\* Instr::write, the arms Block, Loop, If and IfElse
NestWrite(i, lvl) ==
  IF i.k = "IfElse"
  THEN U8Write(4, "op", lvl) \o BlocktypeWrite(i.bt, lvl)
         \o SliceWrite(i.in1, lvl) \o U8Write(5, "else", lvl)
         \o SliceWrite(i.in2, lvl) \o U8Write(11, "end", lvl)
  ELSE U8Write(NestOpcode[i.k], "op", lvl) \o BlocktypeWrite(i.bt, lvl)
         \o SliceWrite(i.in1, lvl) \o U8Write(11, "end", lvl)

\* a secondary opcode written as `opcode as u8`
SubopWriteU8(prefix, opcode, lvl) ==
  U8Write(prefix, "pfx", lvl) \o U8Write(opcode % 256, "sub", lvl)

\* Instr::write, the start of every arm of a secondary opcode space:
\* 0xfcu8.write(w)?; (*opcode as u32).write(w)?
SubopWrite(prefix, opcode, lvl) ==
  U8Write(prefix, "pfx", lvl) \o U32Write(AsU32(opcode), "sub", lvl)

\* the instructions with reserved bytes
MemoryKinds ==
  {"MemorySize", "MemoryGrow", "MemoryInit", "MemoryCopy", "MemoryFill"}

\* Instr::write, the arms with reserved bytes, MemoryCopy writing one of them
MemoryWriteOneReserved(i, lvl) ==
  CASE i.k = "MemorySize" -> << Put(lvl, << Item(63, "op"), Item(0, "rsv") >>) >>
    [] i.k = "MemoryGrow" -> << Put(lvl, << Item(64, "op"), Item(0, "rsv") >>) >>
    [] i.k = "MemoryInit" ->
         SubopWrite(252, 8, lvl)
           \o U32Write(i.x, "imm", lvl) \o LitWrite(0, "rsv", lvl)
    [] i.k = "MemoryCopy" ->
         SubopWrite(252, 10, lvl) \o U8Write(0, "rsv", lvl)
    [] i.k = "MemoryFill" ->
         SubopWrite(252, 11, lvl) \o U8Write(0, "rsv", lvl)

\* Instr::write, the arms MemorySize, MemoryGrow, MemoryInit, MemoryCopy and
\* MemoryFill
MemoryWrite(i, lvl) ==
  CASE i.k = "MemorySize" -> << Put(lvl, << Item(63, "op"), Item(0, "rsv") >>) >>
    [] i.k = "MemoryGrow" -> << Put(lvl, << Item(64, "op"), Item(0, "rsv") >>) >>
    [] i.k = "MemoryInit" ->
         SubopWrite(252, 8, lvl)
           \o U32Write(i.x, "imm", lvl) \o LitWrite(0, "rsv", lvl)
    [] i.k = "MemoryCopy" ->
         SubopWrite(252, 10, lvl)
           \o << Put(lvl, << Item(0, "rsv"), Item(0, "rsv") >>) >>
    [] i.k = "MemoryFill" ->
         SubopWrite(252, 11, lvl) \o U8Write(0, "rsv", lvl)

\* Instr::write
InstrWrite(i, lvl) ==
  CASE i.k \in DOMAIN NoImmOpcode -> U8Write(NoImmOpcode[i.k], "op", lvl)
    [] i.k \in DOMAIN NestOpcode -> NestWrite(i, lvl)
    [] i.k \in DOMAIN IdxOpcode ->
         U8Write(IdxOpcode[i.k], "op", lvl) \o U32Write(i.x, "imm", lvl)
    [] i.k = "BrTable" ->
         U8Write(14, "op", lvl) \o VectorWrite(i.l, lvl) \o U32Write(i.x, "imm", lvl)
    [] i.k = "CallIndirect" ->
         U8Write(17, "op", lvl) \o U32Write(i.x, "imm", lvl) \o U32Write(i.y, "imm", lvl)
    [] i.k = "RefNull" -> U8Write(208, "op", lvl) \o U8Write(i.t, "imm", lvl)
    [] i.k = "Select" ->
         IF i.ty.k = "Some"
         THEN U8Write(28, "op", lvl) \o VectorWrite(i.ty.v, lvl)
         ELSE U8Write(27, "op", lvl)
    [] i.k \in DOMAIN FcIdx2Opcode ->
         SubopWrite(252, FcIdx2Opcode[i.k], lvl)
           \o U32Write(i.x, "imm", lvl) \o U32Write(i.y, "imm", lvl)
    [] i.k \in DOMAIN FcIdxOpcode ->
         SubopWrite(252, FcIdxOpcode[i.k], lvl)
           \o U32Write(i.x, "imm", lvl)
    [] i.k \in DOMAIN MemargOpcode ->
         U8Write(MemargOpcode[i.k], "op", lvl) \o MemargWrite(i.m, lvl)
    [] i.k \in MemoryKinds -> MemoryWrite(i, lvl)
    [] i.k = "I32Const" -> U8Write(65, "op", lvl) \o I32Write(i.n, "imm", lvl)
    [] i.k = "I64Const" -> U8Write(66, "op", lvl) \o I64Write(i.n, "imm", lvl)
    [] i.k = "F32Const" -> U8Write(67, "op", lvl) \o F32Write(i.n, "imm", lvl)
    [] i.k = "F64Const" -> U8Write(68, "op", lvl) \o F64Write(i.n, "imm", lvl)
    [] i.k = "Numeric" -> U8Write(i.opcode % 256, "op", lvl)
    [] i.k = "TruncSat" ->
         SubopWrite(252, i.opcode, lvl)
    [] i.k = "VectorMemarg" ->
         SubopWrite(253, i.opcode, lvl)
           \o MemargWrite(i.m, lvl)
    [] i.k = "VectorMemargLaneidx" ->
         SubopWrite(253, i.opcode, lvl)
           \o MemargWrite(i.m, lvl) \o U8Write(i.lane, "imm", lvl)
    [] i.k = "V128Const" ->
         SubopWrite(253, 12, lvl)
           \o Flatten([j \in 1..Len(i.b) |-> U8Write(i.b[j], "imm", lvl)])
    [] i.k = "I8x16Shuffle" ->
         SubopWrite(253, 13, lvl)
           \o Flatten([j \in 1..Len(i.l) |-> U8Write(i.l[j], "imm", lvl)])
    [] i.k = "VectorLaneidx" ->
         SubopWrite(253, i.opcode, lvl)
           \o U8Write(i.lane, "imm", lvl)
    [] i.k = "VectorNoImmediate" ->
         SubopWrite(253, i.opcode, lvl)

\* the variants of Instr
InstrKinds ==
  DOMAIN NoImmOpcode \cup DOMAIN NestOpcode \cup DOMAIN IdxOpcode
    \cup DOMAIN FcIdx2Opcode \cup DOMAIN FcIdxOpcode \cup DOMAIN MemargOpcode
    \cup {"BrTable", "CallIndirect", "RefNull", "Select", "MemorySize",
          "MemoryGrow", "MemoryInit", "MemoryCopy", "MemoryFill", "I32Const",
          "I64Const", "F32Const", "F64Const", "Numeric", "TruncSat",
          "VectorMemarg", "VectorMemargLaneidx", "V128Const", "I8x16Shuffle",
          "VectorLaneidx", "VectorNoImmediate"}

\* Section::write with the identifier written before the payload is buffered
SectionWriteIdFirst(N, p, lvl) ==
  U8Write(N, "id", lvl) \o << NewBuf(lvl + 1) >> \o Write(p, lvl + 1)
    \o << LenOf(lvl, lvl + 1) >> \o << CopyOf(lvl, lvl + 1) >>

\* Section::write
SectionWrite(N, p, lvl) ==
  << NewBuf(lvl + 1) >> \o Write(p, lvl + 1)
    \o U8Write(N, "id", lvl) \o << LenOf(lvl, lvl + 1) >> \o << CopyOf(lvl, lvl + 1) >>

\* Code::write
CodeWrite(f, lvl) ==
  << NewBuf(lvl + 1) >> \o Write(f, lvl + 1)
    \o << LenOf(lvl, lvl + 1) >> \o Write(f, lvl)

\* Limits::write
LimitsWrite(l, lvl) ==
  IF l.max = -1
  THEN LitWrite(0, "tag", lvl) \o U32Write(l.min, "u32", lvl)
  ELSE LitWrite(1, "tag", lvl) \o U32Write(l.min, "u32", lvl) \o U32Write(l.max, "u32", lvl)

\* dispatch of Grammar::write on the value's type
Write(v, lvl) ==
  CASE v.k = "u8" -> U8Write(v.n, "u8", lvl)
    [] v.k = "u32" -> U32Write(v.n, "u32", lvl)
    [] v.k = "idx" -> U32Write(v.n, "idx", lvl)
    [] v.k = "u64" -> U64WriteW(v.w, "u64", lvl)
    [] v.k = "i64" -> I64WriteW(v.w, "i64", lvl)
    [] v.k = "i32" -> I64WriteW(Wide(v.i), "i32", lvl)
    [] v.k = "f32" -> F32WriteW(v.w, "f32", lvl)
    [] v.k = "f64" -> F64WriteW(v.w, "f64", lvl)
    [] v.k = "Unsigned" -> UnsignedWrite(v, lvl)
    [] v.k = "Signed" -> SignedWrite(v, lvl)
    [] v.k = "Uninterpreted" -> UninterpretedWrite(v, lvl)
    [] v.k = "Float" -> FloatWrite(v, lvl)
    [] v.k = "None" -> <<>>
    [] v.k = "Some" -> Write(v.v, lvl)
    [] v.k = "Name" -> NameWrite(v.s, lvl)
    [] v.k = "Vector" -> VectorWrite(v.v, lvl)
    [] v.k = "LongVector" -> LongVectorWrite(v.len, lvl)
    [] v.k = "Box" -> SliceWrite(v.v, lvl)
    [] v.k = "Valtype" -> U8Write(v.b, "vt", lvl)
    [] v.k \in {"Empty", "ValueType", "TypeIndex"} -> BlocktypeWrite(v, lvl)
    [] v.k = "Memarg" -> MemargWrite(v, lvl)
    [] v.k \in InstrKinds -> InstrWrite(v, lvl)
    [] v.k = "Expr" -> ExprWrite(v.is, lvl)
    [] v.k = "LongExpr" -> LongExprWrite(v.len, lvl)
    [] v.k = "Section" -> SectionWrite(v.N, v.p, lvl)
    [] v.k = "Custom" -> Write(v.name, lvl) \o Write(v.contents, lvl)
    [] v.k = "Locals" -> U32Write(v.n, "u32", lvl) \o Write(v.t, lvl)
    [] v.k = "Func" -> Write(v.t, lvl) \o Write(v.e, lvl)
    [] v.k = "Code" -> CodeWrite(v.f, lvl)
    [] v.k = "Functype" ->
         LitWrite(96, "tag", lvl) \o VectorWrite(v.parameters, lvl)
           \o VectorWrite(v.results, lvl)
    [] v.k = "Start" -> Write(v.x, lvl)
    [] v.k = "Export" -> Write(v.nm, lvl) \o Write(v.d, lvl)
    [] v.k = "Exportdesc" -> U8Write(v.tag, "tag", lvl) \o Write(v.x, lvl)
    [] v.k = "Import" -> Write(v.mod, lvl) \o Write(v.nm, lvl) \o Write(v.d, lvl)
    [] v.k = "Importdesc" -> U8Write(v.tag, "tag", lvl) \o Write(v.x, lvl)
    [] v.k = "Limits" -> LimitsWrite(v, lvl)
    [] v.k = "Tabletype" -> U8Write(v.element_type, "vt", lvl) \o LimitsWrite(v.limits, lvl)
    [] v.k = "Globaltype" -> Write(v.ty, lvl) \o U8Write(v.mutability, "mut", lvl)
    [] v.k = "Global" -> Write(v.gt, lvl) \o Write(v.e, lvl)
    [] v.k = "Elem" -> U32Write(v.n, "tag", lvl) \o SliceWrite(v.fs, lvl)
    [] v.k = "Data" -> U32Write(v.n, "tag", lvl) \o SliceWrite(v.fs, lvl)

\* a whole write on writers that never fail: the items the writer of level l
\* holds before call j, which are those written to it since it was created
LastNew(ops, j, l) ==
  LET S == {i \in 1..(j - 1) : ops[i].op = "new" /\ ops[i].lvl = l}
  IN IF S = {} THEN 0 ELSE CHOOSE i \in S : \A m \in S : m <= i
RECURSIVE BufAt(_, _, _)
BufAt(ops, j, l) ==
  LET n == LastNew(ops, j, l)
  IN Flatten([i \in 1..(j - 1 - n) |->
       IF ops[n + i].lvl = l /\ ops[n + i].op # "new"
       THEN OpItems(ops[n + i], [m \in 1..3 |-> BufAt(ops, n + i, m)])
       ELSE <<>>])
\* the bytes v.write(w) appends to a sink w that accepts every byte (a run
\* counts as its one item)
Encoded(v) == Bytes(BufAt(Write(v, 0), Len(Write(v, 0)) + 1, 0))

\* section!(...): the thirteen section types
Customsec(c) == Section(0, c)
Typesec(v) == Section(1, v)
\* section!(Importsec, 1, ...): the identifier of the line above copied
ImportsecAsType(v) == Section(1, v)
Importsec(v) == Section(2, v)
Funcsec(v) == Section(3, v)
Tablesec(v) == Section(4, v)
Memsec(v) == Section(5, v)
Globalsec(v) == Section(6, v)
Exportsec(v) == Section(7, v)
Startsec(s) == Section(8, s)
Elemsec(v) == Section(9, v)
Codesec(v) == Section(10, v)
Datasec(v) == Section(11, v)
Datacountsec(n) == Section(12, n)

\* ------------------------------------------------- the values of the model
\* instruction trees by number of instructions: two leaves whose immediates
\* equal the end-marker and the else-marker, and the four nesting variants
TreeLeaves == {LocalGet(11), I32Const(5)}

RECURSIVE InstrsOfSize(_), ForestsOfSize(_)
InstrsOfSize(n) ==
  IF n < 1 THEN {}
  ELSE (IF n = 1 THEN TreeLeaves ELSE {})
    \cup {Block(BtEmpty, b) : b \in ForestsOfSize(n - 1)}
    \cup {Loop(BtEmpty, b) : b \in ForestsOfSize(n - 1)}
    \cup {If(BtEmpty, b) : b \in ForestsOfSize(n - 1)}
    \cup UNION {{IfElse(BtEmpty, b1, b2) :
                   b1 \in ForestsOfSize(a), b2 \in ForestsOfSize(n - 1 - a)} :
                a \in 0..(n - 1)}
ForestsOfSize(n) ==
  IF n = 0 THEN {<<>>}
  ELSE UNION {{<<i>> \o f : i \in InstrsOfSize(m), f \in ForestsOfSize(n - m)} :
              m \in 1..n}

Trees == UNION {InstrsOfSize(n) : n \in 1..MaxNodes}
Forests == UNION {ForestsOfSize(n) : n \in 0..MaxNodes}


M0 == Memarg(2, 128)
SampleLeaves ==
  { Nop, [k |-> "Unreachable"], [k |-> "Return"], [k |-> "Drop"],
    LocalGet(0), LocalGet(300), [k |-> "Br", x |-> 1], [k |-> "Call", x |-> 128],
    [k |-> "BrTable", l |-> <<Idx(1), Idx(2)>>, x |-> 0],
    [k |-> "CallIndirect", x |-> 3, y |-> 0],
    [k |-> "RefNull", t |-> 112],
    [k |-> "Select", ty |-> [k |-> "None"]],
    [k |-> "Select", ty |-> [k |-> "Some", v |-> <<Valtype(127)>>]],
    [k |-> "I32Load", m |-> M0], [k |-> "I64Store32", m |-> Memarg(0, 0)],
    [k |-> "MemorySize"], [k |-> "MemoryGrow"],
    I32Const(-1), I32Const(64), I32Const(-65), [k |-> "I64Const", n |-> -129],
    [k |-> "F32Const", n |-> 1065353216], [k |-> "F64Const", n |-> 1],
    Numeric(69), Numeric(I32Add), Numeric(196),
    TruncSat(0), TruncSat(7), MemoryCopy, [k |-> "MemoryFill"], MemoryInit(1),
    MemoryInit(200), [k |-> "DataDrop", x |-> 2], [k |-> "ElemDrop", x |-> 2],
    [k |-> "TableInit", x |-> 1, y |-> 2], [k |-> "TableCopy", x |-> 1, y |-> 2],
    [k |-> "TableGrow", x |-> 0], [k |-> "TableSize", x |-> 0],
    [k |-> "TableFill", x |-> 0],
    VectorMemarg(0, M0), VectorMemarg(92, M0), VectorMemarg(11, Memarg(4, 0)),
    [k |-> "VectorMemargLaneidx", opcode |-> 84, m |-> M0, lane |-> 3],
    [k |-> "V128Const", b |-> [j \in 1..16 |-> j]],
    [k |-> "I8x16Shuffle", l |-> [j \in 1..16 |-> 16 - j]],
    VectorLaneidx(0, 5), VectorLaneidx(93, 1),
    VectorNoImmediate(14), VectorNoImmediate(127), VectorNoImmediate(128),
    VectorNoImmediate(I64x2Eq), VectorNoImmediate(255) }

I32 == Valtype(127)
SampleNests ==
  { Block(BtValueType(I32), <<Nop>>),
    Loop(BtTypeIndex(Wide(5)), <<LocalGet(0), [k |-> "Br", x |-> 0]>>),
    If(BtTypeIndex(Wide(64)), <<VectorNoImmediate(I64x2Eq)>>),
    IfElse(BtValueType(I32), <<LocalGet(11)>>, <<I32Const(5)>>),
    IfElse(BtEmpty, <<LocalGet(11), Nop>>, <<I32Const(5), Numeric(I32Add)>>),
    IfElse(BtEmpty, <<IfElse(BtEmpty, <<Nop>>, <<Nop>>)>>,
                    <<IfElse(BtEmpty, <<I32Const(5)>>, <<LocalGet(11)>>)>>),
    Block(BtEmpty, <<Loop(BtEmpty, <<If(BtEmpty,
        <<IfElse(BtEmpty, <<Block(BtEmpty, <<Nop>>)>>, <<MemoryCopy>>)>>)>>)>>) }

InstrValues == Trees \cup SampleLeaves \cup SampleNests
ExprValues ==
  {Expr(f) : f \in Forests}
    \cup {Expr(<<i>>) : i \in SampleNests}
    \cup {Expr(<<LocalGet(0), LocalGet(0), Numeric(I32Add)>>),
          Expr(<<I32Const(64), VectorNoImmediate(I64x2Eq), MemoryCopy>>),
          Expr(<<VectorLaneidx(0, 5), Nop>>),
          Expr(<<VectorMemarg(0, Memarg(5, 1))>>),
          Expr(<<If(BtEmpty, <<Nop>>), Nop>>),
          Expr(<<IfElse(BtEmpty, <<Nop>>, <<>>), Nop>>),
          Expr(<<I32Const(-1)>>), Expr(<<[k |-> "I64Const", n |-> -1]>>),
          Expr(<<Block(BtTypeIndex(Wide(63)), <<>>)>>),
          Expr(<<Block(BtValueType(I32), <<>>)>>)}

ByteRun(n) == [j \in 1..n |-> U8(j % 256)]
AddFunc == Func(Vector(<<>>), Expr(<<LocalGet(0), LocalGet(0), Numeric(I32Add)>>))
LongFunc == Func(Vector(<<Locals(2, I32)>>), Expr([j \in 1..BigLen |-> Nop]))
FuncValues ==
  { AddFunc, LongFunc,
    Func(Vector(<<>>), Expr(<<>>)),
    Func(Vector(<<Locals(1, I32), Locals(300, Valtype(126))>>),
         Expr(<<Block(BtEmpty, <<LocalGet(11)>>)>>)) }
CodeValues == {Code(f) : f \in FuncValues}
VectorValues ==
  {Vector(SubSeq(<<Idx(0), Idx(200), Idx(1)>>, 1, n)) : n \in 0..3}
    \cup {Vector(ByteRun(BigLen)), Vector(<<Code(AddFunc), Code(LongFunc)>>),
          Vector(<<Expr(<<Nop>>), Expr(<<>>)>>)}

CustomValues ==
  {Custom(Name(nm), BoxSlice(ByteRun(n))) :
     nm \in {<<>>, <<97>>}, n \in {0, 1, BigLen - 2, BigLen - 1, BigLen}}
AddExport == Export(Name(<<97, 100, 100>>), Exportdesc(0, Idx(1)))
FnImport == Import(Name(<<109>>), Name(<<102>>), Importdesc(0, Idx(0)))
SmallSections ==
  { Customsec(Custom(Name(<<97>>), BoxSlice(<<U8(1)>>))),
    Typesec(Vector(<<>>)),
    Importsec(Vector(<<FnImport>>)),
    Funcsec(Vector(<<Idx(0)>>)),
    Exportsec(Vector(<<AddExport>>)),
    Codesec(Vector(<<Code(AddFunc)>>)) }
SectionValues ==
  SmallSections
    \cup {Customsec(c) : c \in CustomValues}
    \cup {Typesec(Vector(<<Functype(<<I32, I32>>, <<I32>>)>>)),
          Importsec(Vector(<<>>)), Funcsec(Vector(<<>>)),
          Funcsec(Vector(<<Idx(0), Idx(200)>>)),
          Tablesec(Vector(<<>>)), Tablesec(Vector(<<Tabletype(112, Limits(1, -1))>>)),
          Memsec(Vector(<<>>)), Memsec(Vector(<<Limits(1, 2)>>)),
          Globalsec(Vector(<<>>)),
          Globalsec(Vector(<<Global(Globaltype(I32, 0), Expr(<<I32Const(5)>>))>>)),
          Exportsec(Vector(<<>>)), Startsec(Start(Idx(1))),
          Elemsec(Vector(<<>>)),
          Elemsec(Vector(<<Elem(0, <<Expr(<<I32Const(5)>>), Vector(<<Idx(1)>>)>>)>>)),
          Codesec(Vector(<<>>)),
          Datasec(Vector(<<>>)),
          Datasec(Vector(<<Data(1, <<Vector(<<U8(11)>>)>>)>>)),
          Datacountsec(U32(0)), Datacountsec(U32(300))}
    \cup {Codesec(Vector(<<Code(f)>>)) : f \in FuncValues}
    \cup {Codesec(Vector(<<Code(f), Code(g)>>)) : f, g \in {AddFunc, LongFunc}}

\* the value types (types.rs: Numtype, Vectype, Reftype) and the blocktypes
\* without a type index
ValtypeBytes == {127, 126, 125, 124, 123, 112, 111}
BlocktypeValues == {BtEmpty} \cup {BtValueType(Valtype(b)) : b \in ValtypeBytes}

\* the i64 whose set bits are the positions in S (bit 63 is the sign)
RECURSIVE SumPow(_)
SumPow(S) ==
  IF S = {} THEN 0
  ELSE LET p == CHOOSE q \in S : TRUE IN 2 ^ p + SumPow(S \ {p})
FromBits(S) ==
  I64(SumPow({p - 56 : p \in S \cap (56..62)}) - (IF 63 \in S THEN 128 ELSE 0),
      SumPow({p - 28 : p \in S \cap (28..55)}),
      SumPow(S \cap (0..27)))

\* the integers a caller hands to S33::new or puts in an S33: for every bit
\* position h, the number with that bit alone, with all bits up to h, with
\* bit h and the sign bit, and with every bit but h
I64Inputs ==
  {FromBits({})}
    \cup {FromBits({h}) : h \in 0..63}
    \cup {FromBits(0..h) : h \in 0..63}
    \cup {FromBits({h, 63}) : h \in 0..63}
    \cup {FromBits((0..63) \ {h}) : h \in 0..63}

\* sizes around 2^32: 2^32 - 1, 2^32, 2^32 + 1 and 2^32 + 128
LongSizes == {FromBits(0..31), FromBits({32}), FromBits({32, 0}), FromBits({32, 7})}
\* values of such a size: a vector of bytes, a data section that holds one, a
\* function body and a code section that holds one
LongValues ==
  UNION {{ LongVector(n),
           Datasec(Vector(<<Data(1, <<LongVector(n)>>)>>)),
           Code(Func(Vector(<<>>), LongExpr(n))),
           Codesec(Vector(<<Code(Func(Vector(<<>>), LongExpr(n)))>>)) } : n \in LongSizes}

\* numbers at the boundaries of their encodings: 0, 127, 128, 2^31, 2^32 - 1,
\* 2^40, 2^63 and 2^64 - 1 unsigned; -1, 63, 64, -64, -65, -(2^40) and the
\* smallest and largest value of each width signed; 0.0, 1.0 and -1.0
NumberValues ==
  LET U32Bits == {Wide(0), Wide(127), Wide(128), FromBits({31}), FromBits(0..31)}
      U64Bits == U32Bits \cup {FromBits({40}), FromBits({63}), FromBits(0..63)}
      I32Ints == {0, -1, 63, 64, -64, -65, -2147483647 - 1, 2147483647}
      I64Bits == {Wide(0), Wide(-1), Wide(63), Wide(64), Wide(-64), Wide(-65),
                  FromBits(40..63), FromBits({63}), FromBits(0..62)}
      F32Bits == {Wide(0), FromBits(23..29), FromBits((23..29) \cup {31})}
      F64Bits == {Wide(0), FromBits(52..61), FromBits((52..61) \cup {63})}
  IN {Number("u64", w) : w \in U64Bits} \cup {Number("i64", w) : w \in I64Bits}
       \cup {Number("i32", i) : i \in I32Ints}
       \cup {Number("f32", w) : w \in F32Bits} \cup {Number("f64", w) : w \in F64Bits}
       \cup {Unsigned("U32", w) : w \in U32Bits} \cup {Unsigned("U64", w) : w \in U64Bits}
       \cup {Signed("S32", i) : i \in I32Ints} \cup {Signed("S64", w) : w \in I64Bits}
       \cup {Uninterpreted("I8", i) : i \in {0, -1, -128, 127}}
       \cup {Uninterpreted("I16", i) : i \in {0, -1, -32768, 32767}}
       \cup {Uninterpreted("I32", i) : i \in I32Ints}
       \cup {Uninterpreted("I64", w) : w \in I64Bits}
       \cup {Float("F32", w) : w \in F32Bits} \cup {Float("F64", w) : w \in F64Bits}

\* names, and the records that hold a name followed by another field
NameValues == {Name(<<>>), Name(<<97, 100, 100>>)}
EntryValues == {AddExport, FnImport, Custom(Name(<<97>>), BoxSlice(<<U8(1)>>))}

Values ==
  InstrValues \cup ExprValues \cup CodeValues \cup VectorValues \cup SectionValues
    \cup NameValues \cup EntryValues \cup BlocktypeValues
    \cup NumberValues
    \cup {None, Some(U8(7)), Some(Vector(<<Idx(1)>>)), Some(Unsigned("U64", FromBits({40})))}

\* what a caller writes to one sink: one value, or several sections in any order
RECURSIVE SeqsOver(_, _)
SeqsOver(S, n) ==
  IF n = 0 THEN {<<>>} ELSE {<<x>> \o r : x \in S, r \in SeqsOver(S, n - 1)}
Scripts ==
  {<<v>> : v \in Values} \cup UNION {SeqsOver(SmallSections, n) : n \in 2..MaxCalls}
\* a value too large to enumerate is written alone, to a sink that takes it all
LongScripts == {<<v>> : v \in LongValues}

\* the errors a sink can raise
SinkErrors == {"full", "closed"}

\* ------------------------------------------------------- the state machine
VARIABLES
  todo,     \* the values the caller has still to write, in order
  cur,      \* the value whose write is running or has returned
  prog,     \* the writer calls of that write
  pc,       \* the next call of prog
  bufs,     \* the temporary buffers, by level
  sink,     \* the items the caller's sink has accepted
  cap,      \* the number of bytes the sink still accepts, -1 for no limit
  start,    \* Len(sink) when the running write was called
  result,   \* "Idle", "Running", "Ok" or "Err"
  error,    \* the error returned with "Err"
  raised,   \* the errors the sink has raised
  arg,      \* the i64 the caller makes a type index of, if it does
  made,     \* the Option<S33> the caller has got from it
  how       \* "new" for S33::new(arg), "literal" for S33(arg), else "none"

vars ==
  <<todo, cur, prog, pc, bufs, sink, cap, start, result, error, raised,
    arg, made, how>>
callerVars == <<arg, made, how>>

NoValue == [k |-> "none"]

Init ==
  /\ \/ todo \in Scripts /\ arg = NoValue
     \/ todo \in LongScripts /\ arg = NoValue
     \/ todo = <<>> /\ arg \in I64Inputs
  /\ made = NoValue
  /\ how = "none"
  /\ cap \in IF todo \in LongScripts THEN {-1} ELSE {-1} \cup 0..MaxCap
  /\ cur = NoValue
  /\ prog = <<>>
  /\ pc = 1
  /\ bufs = << <<>>, <<>> >>
  /\ sink = <<>>
  /\ start = 0
  /\ result = "Idle"
  /\ error = "none"
  /\ raised = {}

\* the caller calls write on its next value
Call ==
  /\ result \in {"Idle", "Ok"}
  /\ todo # <<>>
  /\ cur' = Head(todo)
  /\ todo' = Tail(todo)
  /\ prog' = Write(Head(todo), 0)
  /\ pc' = 1
  /\ bufs' = << <<>>, <<>> >>
  /\ start' = Len(sink)
  /\ result' = "Running"
  /\ UNCHANGED <<sink, cap, error, raised>>
  /\ UNCHANGED callerVars

\* the caller calls S33::new(arg)
S33NewCall ==
  /\ arg # NoValue /\ how = "none"
  /\ made' = S33New(arg)
  /\ how' = "new"
  /\ UNCHANGED <<todo, cur, prog, pc, bufs, sink, cap, start, result, error,
                 raised, arg>>

\* the caller builds the tuple struct itself, S33(arg): its field is pub
S33Literal ==
  /\ arg # NoValue /\ how = "none"
  /\ made' = Some(arg)
  /\ how' = "literal"
  /\ UNCHANGED <<todo, cur, prog, pc, bufs, sink, cap, start, result, error,
                 raised, arg>>

\* the caller makes Blocktype::TypeIndex of the S33 it holds, to write it
MakeTypeIndex ==
  /\ made # NoValue /\ made.k = "Some"
  /\ result = "Idle" /\ todo = <<>>
  /\ todo' = << BtTypeIndex(made.v) >>
  /\ UNCHANGED <<cur, prog, pc, bufs, sink, cap, start, result, error, raised>>
  /\ UNCHANGED callerVars

Running == result = "Running" /\ pc <= Len(prog)

\* a write whose error is dropped (`let _ = ...`) instead of returned with `?`
WriteToSwallow(lvl, its) ==
  IF lvl > 0
  THEN /\ bufs' = [bufs EXCEPT ![lvl] = @ \o its]
       /\ pc' = pc + 1
       /\ UNCHANGED <<sink, cap, result, error, raised>>
  ELSE IF cap = -1 \/ Len(its) <= cap
  THEN /\ sink' = sink \o its
       /\ cap' = IF cap = -1 THEN -1 ELSE cap - Len(its)
       /\ pc' = pc + 1
       /\ UNCHANGED <<bufs, result, error, raised>>
  ELSE \E e \in SinkErrors :
       /\ sink' = sink \o Prefix(its, cap)
       /\ cap' = 0
       /\ raised' = raised \cup {e}
       /\ pc' = pc + 1
       /\ UNCHANGED <<bufs, result, error>>

\* a failed write whose error is kept and returned only at the end, the
\* calls after it being made all the same
WriteToDeferError(lvl, its) ==
  IF lvl > 0
  THEN /\ bufs' = [bufs EXCEPT ![lvl] = @ \o its]
       /\ pc' = pc + 1
       /\ UNCHANGED <<sink, cap, result, error, raised>>
  ELSE IF cap = -1 \/ Len(its) <= cap
  THEN /\ sink' = sink \o its
       /\ cap' = IF cap = -1 THEN -1 ELSE cap - Len(its)
       /\ pc' = pc + 1
       /\ UNCHANGED <<bufs, result, error, raised>>
  ELSE \E e \in SinkErrors :
       /\ sink' = sink \o Prefix(its, cap)
       /\ cap' = 0
       /\ raised' = raised \cup {e}
       /\ error' = e
       /\ result' = IF pc = Len(prog) THEN "Err" ELSE result
       /\ pc' = pc + 1
       /\ UNCHANGED bufs

\* items written to the writer of level lvl: a Vec<u8> takes them all, the
\* sink takes what it has room for and fails on the first byte it has not,
\* and the `?` after the call returns that error
WriteTo(lvl, its) ==
  IF lvl > 0
  THEN /\ bufs' = [bufs EXCEPT ![lvl] = @ \o its]
       /\ pc' = pc + 1
       /\ UNCHANGED <<sink, cap, result, error, raised>>
  ELSE IF cap = -1 \/ Len(its) <= cap
  THEN /\ sink' = sink \o its
       /\ cap' = IF cap = -1 THEN -1 ELSE cap - Len(its)
       /\ pc' = pc + 1
       /\ UNCHANGED <<bufs, result, error, raised>>
  ELSE \E e \in SinkErrors :
       /\ sink' = sink \o Prefix(its, cap)
       /\ cap' = 0
       /\ raised' = raised \cup {e}
       /\ result' = "Err"
       /\ error' = e
       /\ UNCHANGED <<bufs, pc>>

\* let mut buf = vec![]
NewBufStep ==
  /\ Running /\ prog[pc].op = "new"
  /\ bufs' = [bufs EXCEPT ![prog[pc].lvl] = <<>>]
  /\ pc' = pc + 1
  /\ UNCHANGED <<todo, cur, prog, sink, cap, start, result, error, raised>>
  /\ UNCHANGED callerVars

\* w.write_all(..), leb128::write::unsigned(w, ..), leb128::write::signed(w, ..)
PutStep ==
  /\ Running /\ prog[pc].op = "put"
  /\ WriteTo(prog[pc].lvl, OpItems(prog[pc], bufs))
  /\ UNCHANGED <<todo, cur, prog, start>>
  /\ UNCHANGED callerVars

\* (buf.len() as u32).write(w)
LenStep ==
  /\ Running /\ prog[pc].op = "len"
  /\ WriteTo(prog[pc].lvl, OpItems(prog[pc], bufs))
  /\ UNCHANGED <<todo, cur, prog, start>>
  /\ UNCHANGED callerVars

\* buf.as_slice().write(w)
CopyStep ==
  /\ Running /\ prog[pc].op = "copy"
  /\ WriteTo(prog[pc].lvl, OpItems(prog[pc], bufs))
  /\ UNCHANGED <<todo, cur, prog, start>>
  /\ UNCHANGED callerVars

\* the last call returned Ok(()), and so does write
Return ==
  /\ result = "Running" /\ pc > Len(prog)
  /\ result' = "Ok"
  /\ UNCHANGED <<todo, cur, prog, pc, bufs, sink, cap, start, error, raised>>
  /\ UNCHANGED callerVars

Next ==
  \/ Call \/ NewBufStep \/ PutStep \/ LenStep \/ CopyStep \/ Return
  \/ S33NewCall \/ S33Literal \/ MakeTypeIndex

Spec == Init /\ [][Next]_vars

\* ------------------------------------------------------------- the claims
\* what the running or returned write has appended to the sink
Out == SubSeq(sink, start + 1, Len(sink))
Returned == result = "Ok"
Concat(vs) == Flatten([j \in 1..Len(vs) |-> Encoded(vs[j])])

\* the value of an unsigned LEB128 byte sequence, and its well-formedness
RECURSIVE ULEBValue(_)
ULEBValue(bs) ==
  IF Len(bs) = 0 THEN 0 ELSE (bs[1] % 128) + 128 * ULEBValue(Tail(bs))
ULEBWellFormed(bs) ==
  /\ Len(bs) >= 1
  /\ \A j \in 1..Len(bs) : (bs[j] >= 128) <=> (j < Len(bs))

\* the items v.write(w) appends to a sink w that accepts every byte
EncodedItems(v) == BufAt(Write(v, 0), Len(Write(v, 0)) + 1, 0)

\* the last byte of the unsigned LEB128 field that starts at byte i of bs
FieldEnd(bs, i) ==
  CHOOSE j \in i..Len(bs) : bs[j] < 128 /\ \A m \in i..(j - 1) : bs[m] >= 128

\* C1: for every identifier N and every payload, a section written to a sink
\* that never fails is the identifier byte, the unsigned LEB128 of the
\* payload's byte length and the payload's encoding, in this order; the
\* length field is the number of bytes after it
C1_SectionFrame ==
  (Returned /\ cur.k = "Section") =>
    LET P == EncodedItems(cur.p)
        o == Bytes(Out)
        e == FieldEnd(o, 2)
    IN /\ Out = << Item(cur.N, "id") >> \o Items(ULEBW(Size(P)), "len") \o P
       /\ ULEBWellFormed(SubSeq(o, 2, e))
       /\ SubSeq(o, 2, e) = ULEBW(Size(SubSeq(Out, e + 1, Len(Out))))

\* the state of a section write in the terms of the specification
Phase ==
  IF cur.k # "Section" THEN "None"
  ELSE IF result = "Ok" THEN "Done"
  ELSE IF result = "Err" THEN "Failed"
  ELSE IF pc <= Len(prog) /\ prog[pc].op = "new" /\ prog[pc].lvl = 1 THEN "Empty"
  ELSE IF pc <= Len(prog) /\ prog[pc].lvl >= 1 THEN "Buffering"
  ELSE "Framed"
Rank(ph) ==
  CASE ph = "Empty" -> 0 [] ph = "Buffering" -> 1 [] ph = "Framed" -> 2
    [] ph \in {"Done", "Failed"} -> 3 [] OTHER -> -1

\* C2: during a section write the sink takes no byte while the payload is
\* being buffered, the first byte it takes is the identifier and the buffer
\* is complete by then; the write moves forward through Empty, Buffering,
\* Framed, Done and never returns to an earlier state
C2_BufferThenFrame ==
  [][ (cur.k = "Section" /\ todo' = todo) =>
        /\ Rank(Phase') >= Rank(Phase)
        /\ (Phase \in {"Empty", "Buffering"} => sink' = sink)
        /\ (Len(sink') > start => Phase' \notin {"Empty", "Buffering"})
        /\ (Len(sink') > start =>
              /\ sink'[start + 1] = Item(cur.N, "id")
              /\ Bytes(bufs'[1]) = Encoded(cur.p))
        /\ (Phase = "Done" => Phase' = "Done") ]_vars

\* a section write is framing: its buffer holds the payload and the sink has
\* taken bytes of the frame
C2_Witness ==
  /\ cur.k = "Section" /\ result = "Running" /\ Phase = "Framed"
  /\ Len(bufs[1]) > 1 /\ Len(sink) > start + 1

\* C3: a function body is written as the unsigned LEB128 of the byte length
\* of its encoding (locals, then expression) and then that encoding, which is
\* what the temporary buffer held; a code section is 0x0A, the length of the
\* payload, the function count and the length-prefixed bodies in order; the
\* body [LocalGet(0), LocalGet(0), I32Add] without locals has length 7
CodeFrame(c) ==
  LET F == EncodedItems(c.f) IN Items(ULEBW(Size(F)), "len") \o F
C3_CodeFrame ==
  /\ (Returned /\ cur.k = "Code") =>
       /\ Out = CodeFrame(cur)
       /\ bufs[1] = EncodedItems(cur.f)
       /\ EncodedItems(cur.f) = EncodedItems(cur.f.t) \o EncodedItems(cur.f.e)
  /\ (Returned /\ cur.k = "Section" /\ cur.N = 10) =>
       LET fs == cur.p.v
           P == Items(ULEB(Len(fs)), "cnt")
                  \o Flatten([j \in 1..Len(fs) |-> CodeFrame(fs[j])])
       IN Out = << Item(10, "id") >> \o Items(ULEBW(Size(P)), "len") \o P
  /\ (Returned /\ cur = Codesec(Vector(<<Code(AddFunc)>>))) =>
       Bytes(Out) = <<10, 9, 1, 7, 0, 32, 0, 32, 0, 106, 11>>

\* C4: every vector of N elements is written as the unsigned LEB128 of N and
\* the N element encodings in input order, and nothing else; an empty vector
\* is the single byte 0x00
C4_VectorCountThenElements ==
  /\ (Returned /\ cur.k = "Vector") =>
       /\ Bytes(Out) = ULEB(Len(cur.v)) \o Concat(cur.v)
       /\ ULEBValue(SubSeq(Bytes(Out), 1, Len(ULEB(Len(cur.v))))) = Len(cur.v)
       /\ (Len(cur.v) = 0 => Bytes(Out) = <<0>>)
  /\ (Returned /\ cur.k = "LongVector") =>
       Out = Items(ULEBW(cur.len), "cnt") \o << Run(0, "u8", cur.len) >>

\* C5: an expression is written as its instructions in order, without a
\* count, and then one end-marker 0x0B, which is its last byte; the empty
\* expression is the single byte 0x0B
C5_ExprEndMarker ==
  (Returned /\ cur.k = "Expr") =>
    /\ Bytes(Out) = Concat(cur.is) \o <<11>>
    /\ Out[Len(Out)] = Item(11, "end")
    /\ (Len(cur.is) = 0 => Bytes(Out) = <<11>>)

\* an expression of several instructions, one of them nesting, has been
\* written
C5_Witness ==
  /\ Returned /\ cur.k = "Expr" /\ Len(cur.is) >= 2
  /\ \E j \in 1..Len(cur.is) : cur.is[j].k \in {"Block", "Loop", "If", "IfElse"}

\* the nesting constructs and the if-else constructs of an instruction tree
RECURSIVE NestCount(_), ElseCount(_)
NestCountOf(is) ==
  LET RECURSIVE Sum(_)
      Sum(j) == IF j = 0 THEN 0 ELSE NestCount(is[j]) + Sum(j - 1)
  IN Sum(Len(is))
ElseCountOf(is) ==
  LET RECURSIVE Sum(_)
      Sum(j) == IF j = 0 THEN 0 ELSE ElseCount(is[j]) + Sum(j - 1)
  IN Sum(Len(is))
NestCount(i) ==
  CASE i.k \in {"Block", "Loop", "If"} -> 1 + NestCountOf(i.in1)
    [] i.k = "IfElse" -> 1 + NestCountOf(i.in1) + NestCountOf(i.in2)
    [] OTHER -> 0
ElseCount(i) ==
  CASE i.k \in {"Block", "Loop", "If"} -> ElseCountOf(i.in1)
    [] i.k = "IfElse" -> 1 + ElseCountOf(i.in1) + ElseCountOf(i.in2)
    [] OTHER -> 0
IsNest(i) == i.k \in {"Block", "Loop", "If", "IfElse"}

\* C6: a Block, Loop, If or IfElse is written as its opcode (0x02, 0x03,
\* 0x04, 0x04), its blocktype, its children in order and one end-marker 0x0B;
\* IfElse writes one else-marker 0x05 between its two bodies and If none; the
\* end-markers written are as many as the nesting constructs of the tree
C6_NestingMarkers ==
  (Returned /\ IsNest(cur)) =>
    LET opc == CASE cur.k = "Block" -> 2 [] cur.k = "Loop" -> 3 [] OTHER -> 4
        head == <<opc>> \o Encoded(cur.bt) \o Concat(cur.in1)
    IN /\ cur.k # "IfElse" => Bytes(Out) = head \o <<11>>
       /\ cur.k = "IfElse" =>
            /\ Bytes(Out) = head \o <<5>> \o Concat(cur.in2) \o <<11>>
            /\ Out[Len(head) + 1] = Item(5, "else")
       /\ Out[Len(Out)] = Item(11, "end")
       /\ CountTag(Out, "end") = NestCount(cur)
       /\ CountTag(Out, "else") = ElseCount(cur)

\* an IfElse with two bodies that hold nested IfElse has been written
C6_Witness ==
  /\ Returned /\ cur.k = "IfElse"
  /\ Len(cur.in1) > 0 /\ Len(cur.in2) > 0
  /\ NestCount(cur) >= 3 /\ ElseCount(cur) >= 3

\* the instructions of the two secondary opcode spaces and their sub-opcodes
FcKinds ==
  {"TruncSat", "MemoryInit", "DataDrop", "MemoryCopy", "MemoryFill",
   "TableInit", "ElemDrop", "TableCopy", "TableGrow", "TableSize", "TableFill"}
FdKinds ==
  {"VectorMemarg", "VectorMemargLaneidx", "V128Const", "I8x16Shuffle",
   "VectorLaneidx", "VectorNoImmediate"}
SubOpcodeOf(i) ==
  CASE i.k \in {"TruncSat", "VectorMemarg", "VectorMemargLaneidx",
                "VectorLaneidx", "VectorNoImmediate"} -> i.opcode
    [] i.k = "MemoryInit" -> 8 [] i.k = "DataDrop" -> 9
    [] i.k = "MemoryCopy" -> 10 [] i.k = "MemoryFill" -> 11
    [] i.k = "TableInit" -> 12 [] i.k = "ElemDrop" -> 13
    [] i.k = "TableCopy" -> 14 [] i.k = "TableGrow" -> 15
    [] i.k = "TableSize" -> 16 [] i.k = "TableFill" -> 17
    [] i.k = "V128Const" -> 12 [] i.k = "I8x16Shuffle" -> 13
SubBytes(o) == Bytes(SelectSeq(o, LAMBDA x : x.t = "sub"))

\* C7: an instruction of a secondary opcode space is written as the prefix
\* byte (0xFC or 0xFD), its sub-opcode as an unsigned LEB128 integer (more
\* than one byte above 127) and its immediates; an instruction of the primary
\* space is written as one opcode byte and its immediates
C7_OpcodeSpaces ==
  /\ (Returned /\ cur.k \in FcKinds \cup FdKinds) =>
       LET n == Len(SubBytes(Out))
           sub == SubSeq(Bytes(Out), 2, 1 + n)
       IN /\ Out[1] = Item(IF cur.k \in FcKinds THEN 252 ELSE 253, "pfx")
          /\ n >= 1 /\ sub = SubBytes(Out)
          /\ ULEBWellFormed(sub)
          /\ ULEBValue(sub) = SubOpcodeOf(cur)
          /\ (SubOpcodeOf(cur) > 127 => n > 1)
          /\ \A j \in (n + 2)..Len(Out) : Out[j].t \in {"imm", "rsv"}
          /\ cur.k \in {"TruncSat", "VectorNoImmediate"} => Len(Out) = 1 + n
          /\ cur.k = "VectorLaneidx" => SubSeq(Bytes(Out), n + 2, Len(Out)) = <<cur.lane>>
          /\ cur.k = "VectorMemarg" =>
               SubSeq(Bytes(Out), n + 2, Len(Out)) = ULEB(cur.m.align) \o ULEB(cur.m.offset)
  /\ (Returned /\ cur.k \in InstrKinds \ (FcKinds \cup FdKinds)) =>
       /\ Out[1].t = "op"
       /\ ~IsNest(cur) => /\ CountTag(Out, "op") = 1
                          /\ CountTag(Out, "pfx") = 0
                          /\ \A j \in 2..Len(Out) : Out[j].t \in {"imm", "rsv", "cnt", "vt", "idx"}

\* the vector instruction of sub-opcode 214 has been written, in three bytes
C7_Witness ==
  /\ Returned /\ cur = VectorNoImmediate(I64x2Eq)
  /\ Len(Out) = 3

\* C8: write returns an error exactly when a write to the sink failed, and
\* the error is the one the sink raised; on a sink that accepts every byte
\* it returns Ok, and then the sink holds the whole encoding
C8_ErrorIffSinkFailed ==
  /\ (result = "Err") <=> (raised # {})
  /\ result = "Err" => raised = {error}
  /\ result # "Err" => error = "none"
  /\ cap = -1 => result # "Err"
  /\ Returned => Bytes(Out) = Encoded(cur)

\* a section write has failed in the middle of its frame, after the payload
\* was buffered without an error
C8_Witness ==
  /\ result = "Err" /\ cur.k = "Section"
  /\ Len(bufs[1]) > 2 /\ Len(sink) > start + 1
  /\ error \in SinkErrors

\* the section identifiers in the sink, in the order they were written
SectionIds == Bytes(SelectSeq(sink, LAMBDA x : x.t = "id"))

\* C9: the sections in the byte stream are in strictly ascending identifier
\* order
C9_AscendingSections ==
  \A i, j \in 1..Len(SectionIds) : i < j => SectionIds[i] < SectionIds[j]

\* C10: a section whose content is a vector of zero elements appends no byte
\* to the sink
C10_EmptySectionOmitted ==
  (Returned /\ cur.k = "Section" /\ cur.p.k = "Vector" /\ Len(cur.p.v) = 0) =>
    Len(Out) = 0

\* a name as a length-prefixed byte sequence
Prefixed(nm) == ULEB(Len(nm.s)) \o nm.s

\* C11: a name is written as the unsigned LEB128 of its number of UTF-8 bytes
\* and then those bytes, alone and in front of the next field of an Import,
\* an Export or a Custom record
C11_NameLengthPrefixed ==
  /\ (Returned /\ cur.k = "Name") => Bytes(Out) = Prefixed(cur)
  /\ (Returned /\ cur.k = "Export") =>
       Bytes(Out) = Prefixed(cur.nm) \o Encoded(cur.d)
  /\ (Returned /\ cur.k = "Import") =>
       Bytes(Out) = Prefixed(cur.mod) \o Prefixed(cur.nm) \o Encoded(cur.d)
  /\ (Returned /\ cur.k = "Custom") =>
       Bytes(Out) = Prefixed(cur.name) \o Encoded(cur.contents)

\* bit p of an i64 in two's complement
Bit(n, p) ==
  IF p < 28 THEN (n.l0 \div 2 ^ p) % 2
  ELSE IF p < 56 THEN (n.l1 \div 2 ^ (p - 28)) % 2
  ELSE (n.l2 \div 2 ^ (p - 56)) % 2
\* non-negative and representable in 33 significant bits
InS33Range(n) == \A p \in 33..63 : Bit(n, p) = 0

\* C12: every S33 that exists was accepted by the range check of S33::new,
\* and Blocktype::write is never called on a type index out of range
C12_OnlyCheckedS33 ==
  /\ (made # NoValue /\ made.k = "Some") => S33New(made.v) = Some(made.v)
  /\ (result # "Idle" /\ cur.k = "TypeIndex") => S33New(cur.ti) = Some(cur.ti)

\* C13: S33::new(n) returns Some(S33(n)) exactly when n is non-negative and
\* has no bit set at position 33 or above, and None for every other i64
C13_S33NewRange ==
  how = "new" =>
    /\ (made.k = "Some") <=> InS33Range(arg)
    /\ made.k = "Some" => made.v = arg
    /\ Bit(arg, 63) = 1 => made = None
    /\ (\E p \in 33..62 : Bit(arg, p) = 1) => made = None

\* S33::new has refused 2^33, the smallest integer above the range
C13_Witness ==
  /\ how = "new" /\ made = None
  /\ arg = FromBits({33})

\* C14: the bytes written for a type index accepted by S33::new start neither
\* with 0x40 nor with a value-type byte, Empty is the byte 0x40 and a value
\* type is its own byte, so the three alternatives never encode alike
C14_BlocktypeDisjoint ==
  /\ (Returned /\ cur.k = "TypeIndex" /\ how = "new") =>
       /\ Len(Out) >= 1
       /\ Out[1].b \notin {64} \cup ValtypeBytes
       /\ Out[1].b \in (0..63) \cup (128..255)
  /\ (Returned /\ cur.k = "Empty") => Bytes(Out) = <<64>>
  /\ (Returned /\ cur.k = "ValueType") =>
       /\ Bytes(Out) = <<cur.vt.b>>
       /\ cur.vt.b \in ValtypeBytes \ {64}

\* the type index 64, accepted by S33::new, has been written as C0 00
C14_Witness ==
  /\ Returned /\ cur.k = "TypeIndex" /\ how = "new"
  /\ cur.ti = Wide(64)
  /\ Bytes(Out) = <<192, 0>>

\* the reserved bytes among the items written
Reserved(o) == Bytes(SelectSeq(o, LAMBDA x : x.t = "rsv"))

\* C15: MemoryCopy is FC 0A 00 00, MemoryFill FC 0B 00, MemoryInit(x) FC 08,
\* the unsigned LEB128 of x and 00, MemorySize 3F 00 and MemoryGrow 40 00:
\* the reserved bytes are zero and their number is fixed
C15_ReservedBytes ==
  /\ (Returned /\ cur.k = "MemoryCopy") => Bytes(Out) = <<252, 10, 0, 0>>
  /\ (Returned /\ cur.k = "MemoryFill") => Bytes(Out) = <<252, 11, 0>>
  /\ (Returned /\ cur.k = "MemoryInit") =>
       Bytes(Out) = <<252, 8>> \o ULEB(cur.x) \o <<0>>
  /\ (Returned /\ cur.k = "MemorySize") => Bytes(Out) = <<63, 0>>
  /\ (Returned /\ cur.k = "MemoryGrow") => Bytes(Out) = <<64, 0>>
  /\ (Returned /\ cur.k \in MemoryKinds) =>
       /\ Reserved(Out) = (IF cur.k = "MemoryCopy" THEN <<0, 0>> ELSE <<0>>)
       /\ \A j \in 1..Len(Out) :
            Out[j].t = "rsv" => j > Len(Out) - Len(Reserved(Out))

\* MemoryInit of a data index above 127 has been written, in five bytes
C15_Witness ==
  /\ Returned /\ cur = MemoryInit(200)
  /\ Bytes(Out) = <<252, 8, 200, 1, 0>>

\* the section kinds with their identifiers, and the value of a kind
SectionIdOf ==
  [Customsec |-> 0, Typesec |-> 1, Importsec |-> 2, Funcsec |-> 3,
   Tablesec |-> 4, Memsec |-> 5, Globalsec |-> 6, Exportsec |-> 7,
   Startsec |-> 8, Elemsec |-> 9, Codesec |-> 10, Datasec |-> 11,
   Datacountsec |-> 12]
SectionOf(kind, p) ==
  CASE kind = "Customsec" -> Customsec(p) [] kind = "Typesec" -> Typesec(p)
    [] kind = "Importsec" -> Importsec(p) [] kind = "Funcsec" -> Funcsec(p)
    [] kind = "Tablesec" -> Tablesec(p) [] kind = "Memsec" -> Memsec(p)
    [] kind = "Globalsec" -> Globalsec(p) [] kind = "Exportsec" -> Exportsec(p)
    [] kind = "Startsec" -> Startsec(p) [] kind = "Elemsec" -> Elemsec(p)
    [] kind = "Codesec" -> Codesec(p) [] kind = "Datasec" -> Datasec(p)
    [] kind = "Datacountsec" -> Datacountsec(p)

\* C16: the first byte a section of each kind writes is the identifier of
\* its kind, Customsec 0 up to Datacountsec 12, and no two kinds have the
\* same identifier
C16_SectionIdentifiers ==
  (Returned /\ cur.k = "Section") =>
    /\ \E kind \in DOMAIN SectionIdOf : cur = SectionOf(kind, cur.p)
    /\ \A kind \in DOMAIN SectionIdOf :
         cur = SectionOf(kind, cur.p) => Out[1] = Item(SectionIdOf[kind], "id")
    /\ \A k1, k2 \in DOMAIN SectionIdOf :
         k1 # k2 => SectionOf(k1, cur.p) # SectionOf(k2, cur.p)

\* a data count section has been written and starts with the byte 12
C16_Witness ==
  /\ Returned /\ cur = Datacountsec(U32(300))
  /\ Bytes(Out) = <<12, 2, 172, 2>>

\* the deepest chain of Instr::write activations while i is written: the
\* arms Block, Loop, If and IfElse call write on each child, from inside
\* their own activation, and nothing counts or limits the depth
RECURSIVE WriteDepth(_)
WriteDepthOf(is) ==
  LET RECURSIVE Max(_)
      Max(j) == IF j = 0 THEN 0
                ELSE LET d == WriteDepth(is[j])
                         m == Max(j - 1)
                     IN IF d > m THEN d ELSE m
  IN Max(Len(is))
WriteDepth(i) ==
  CASE i.k \in {"Block", "Loop", "If"} -> 1 + WriteDepthOf(i.in1)
    [] i.k = "IfElse" -> 1 + WriteDepthOf(i.in1 \o i.in2)
    [] OTHER -> 1

\* the nesting depth of the deepest instruction the caller supplies
DeepestSupplied ==
  CHOOSE d \in {WriteDepth(i) : i \in InstrValues} :
    \A i \in InstrValues : WriteDepth(i) <= d

\* C17: the depth of nested Instr::write activations stays under a fixed
\* bound whatever nesting the caller supplies: an instruction nested as deep
\* as the deepest one supplied is rejected, it is never written to the end
C17_DepthBounded ==
  (Returned /\ cur.k \in InstrKinds) => WriteDepth(cur) < DeepestSupplied

\* C18: a write to the sink that fails ends the whole write at once: the
\* error is returned by the call that failed, no call is made after it (the
\* rest of the children, the else-marker, the end-marker and the later
\* fields are not written), and what the sink has taken is a prefix of the
\* encoding the value has on a sink that never fails
C18_FailStops ==
  /\ result = "Running" => raised = {}
  /\ result = "Err" =>
       /\ Bytes(Out) = Prefix(Encoded(cur), Len(Out))
       /\ Cardinality(raised) = 1
       /\ pc <= Len(prog) /\ prog[pc].lvl = 0
       /\ Len(OpItems(prog[pc], bufs)) > 0
       /\ Len(Out) < Len(Encoded(cur))
       /\ cap = 0

\* the write of an IfElse has failed inside its first body: the sink holds
\* the opcode, the blocktype and a part of the body, and no marker
C18_Witness ==
  /\ result = "Err" /\ cur.k = "IfElse"
  /\ Len(cur.in1) > 0 /\ Len(cur.in2) > 0
  /\ Len(Out) > 2
  /\ CountTag(Out, "else") = 0 /\ CountTag(Out, "end") = 0

\* C19: a lane-indexed vector instruction is written as 0xFD, the unsigned
\* LEB128 of its sub-opcode and the lane index as one byte, and the
\* sub-opcode is one of the VectorLaneidx opcodes 21..34, never one of the
\* memory-argument opcodes
C19_LaneidxOpcodes ==
  (Returned /\ cur.k = "VectorLaneidx") =>
    /\ Bytes(Out) = <<253>> \o ULEB(SubOpcodeOf(cur)) \o <<cur.lane>>
    /\ SubOpcodeOf(cur) \in VectorLaneidxOpcodes
    /\ SubOpcodeOf(cur) \notin VectorMemargOpcodes

\* the encodings of the expressions the caller supplies
ExprEncodings == [e \in ExprValues |-> Encoded(e)]

\* C20: two different instruction sequences never have the same encoding
C20_Injective ==
  (Returned /\ cur.k = "Expr") =>
    \A e \in ExprValues : e # cur => ExprEncodings[e] # Bytes(Out)

\* C21: no count or length field is truncated: the count field of a vector
\* is the unsigned LEB128 of its number of elements, and the length field of a
\* section and of a function body is the unsigned LEB128 of the number of
\* bytes that were buffered, which are the bytes that follow the field, also
\* when that number does not fit in 32 bits
C21_NoTruncation ==
  LET o == Bytes(Out)
  IN /\ (Returned /\ cur.k = "Vector") =>
          SubSeq(o, 1, FieldEnd(o, 1)) = ULEBW(Wide(Len(cur.v)))
     /\ (Returned /\ cur.k = "LongVector") =>
          SubSeq(o, 1, FieldEnd(o, 1)) = ULEBW(cur.len)
     /\ (Returned /\ cur.k = "Section") =>
          /\ SubSeq(o, 2, FieldEnd(o, 2)) = ULEBW(Size(bufs[1]))
          /\ Size(bufs[1]) = Size(SubSeq(Out, FieldEnd(o, 2) + 1, Len(Out)))
     /\ (Returned /\ cur.k = "Code") =>
          /\ SubSeq(o, 1, FieldEnd(o, 1)) = ULEBW(Size(bufs[1]))
          /\ Size(bufs[1]) = Size(SubSeq(Out, FieldEnd(o, 1) + 1, Len(Out)))

=============================================================================
